---- MODULE Spec2Model ----
(***************************************************************************)
(* Media handlers of the Telegram bot: handleAudio / processAudioFile      *)
(* (src/src/handlers/audio.ts) and handleVideo / downloadVideo             *)
(* (src/src/handlers/video.ts), run as cooperatively interleaved async     *)
(* tasks over one shared Session, one rate limiter and one temp directory. *)
(*                                                                         *)
(* Every action is one synchronous segment of a handler: from the          *)
(* settlement of the awaited call to the next await (or to the end of the  *)
(* handler), catch and finally blocks included.                            *)
(*                                                                         *)
(* Spec runs the handlers one event at a time, SpecInterleaved lets an      *)
(* event arrive while another handler waits, SpecLong runs handleAudio on   *)
(* the first event with transcripts longer than the preview shows.          *)
(*                                                                         *)
(* Texts are sequences of pieces: a fixed message of the source is one     *)
(* piece, a text the handler slices or searches is one piece per           *)
(* character.                                                              *)
(***************************************************************************)
EXTENDS Integers, Sequences, FiniteSets, TLC

----------------------------------------------------------------------------
(* Bounds of the model *)

\* number of handler invocations (inbound media events) in one behaviour
MaxInv == 2
\* requests a user may make before the limiter rejects (bucket capacity)
MaxTokens == 1
\* distinct values Date.now() may return while the handlers run
MaxTime == 1

\* the tasks of the runtime: at most two handlers are in flight at a time
Procs == {1, 2}
Timestamps == 1 .. MaxTime

----------------------------------------------------------------------------
(* Program constants *)

MAX_VIDEO_SIZE == 52428800
MaxDisplay == 4000
TitleLimit == 50
TitleKeep == 47
ErrorSliceLen == 200

----------------------------------------------------------------------------
(* Texts *)

ABORT == <<"a", "b", "o", "r", "t">>
CANCEL == <<"c", "a", "n", "c", "e", "l">>
PROMPT_SEPARATOR == <<"\n", "\n", "-", "-", "-", "\n", "\n">>
ELLIPSIS3 == <<".", ".", ".">>
ELLIPSIS1 == <<"(ellipsis)">>

UNAUTHORIZED_MSG == <<"Unauthorized. Contact the bot owner for access.">>
NOT_CONFIGURED_MSG == <<"Voice transcription is not configured. Set OPENAI_API_KEY in .env">>
TRANSCRIBING_MSG == <<"(mic) Transcribing audio...">>
TRANSCRIPTION_FAILED_MSG == <<"(x) Transcription failed.">>
AUDIO_DOWNLOAD_FAILED_MSG == <<"(x) Failed to download audio file.">>
VIDEO_DOWNLOAD_FAILED_MSG == <<"(x) Failed to download video.">>
DOWNLOADING_VIDEO_MSG == <<"(video) Downloading video...">>
PROCESSING_VIDEO_MSG == <<"(video) Processing video...">>
QUERY_STOPPED_MSG == <<"(stop) Query stopped.">>
ERROR_PREFIX == <<"(x) Error: ">>
VIDEO_PLACEHOLDER_TITLE == <<"[", "V", "i", "d", "e", "o", "]">>
VIDEO_PLACEHOLDER_AUDIT == <<"[video]">>
DEFAULT_AUDIO_EXT == <<"m", "p", "3">>
NoText == <<>>

\* the text of n characters c
Repeat(c, n) == [k \in 1 .. n |-> c]

\* s.slice(from, to) of JavaScript, 0-based, end exclusive
Slice(s, from, to) ==
    LET hi == IF to > Len(s) THEN Len(s) ELSE to
    IN  IF from >= hi THEN <<>> ELSE SubSeq(s, from + 1, hi)

\* s.includes(sub) of JavaScript: case-sensitive substring search
Includes(s, sub) ==
    \E k \in 0 .. (Len(s) - Len(sub)) : SubSeq(s, k + 1, k + Len(sub)) = sub


Hello == <<"h", "e", "l", "l", "o", " ", "w", "o", "r", "l", "d">>
Summarize == <<"s", "u", "m", "m", "a", "r", "i", "z", "e">>
\* a transcript one character longer than the title limit
LongTranscript == Repeat("t", TitleLimit + 1)

\* a transcript one character longer than the cap of the preview
VeryLongTranscript == Repeat("v", MaxDisplay + 1)

DescAborted == <<"A", "b", "o", "r", "t", "E", "r", "r", "o", "r", ":", " ", "T", "h", "e", " ", "o", "p", "e", "r", "a", "t", "i", "o", "n", " ", "w", "a", "s", " ", "a", "b", "o", "r", "t", "e", "d">>
DescCancelled == <<"E", "r", "r", "o", "r", ":", " ", "c", "a", "n", "c", "e", "l", "l", "e", "d", " ", "b", "y", " ", "u", "s", "e", "r">>
DescReset == <<"E", "r", "r", "o", "r", ":", " ", "c", "o", "n", "n", "e", "c", "t", "i", "o", "n", " ", "r", "e", "s", "e", "t">>
DescUpper == <<"E", "r", "r", "o", "r", ":", " ", "C", "a", "n", "c", "e", "l", "l", "e", "d">>
\* a genuine error whose description is longer than the slice of the error reply
DescLong == <<"E", "r", "r", "o", "r", ":", " ">> \o Repeat("x", ErrorSliceLen)

Digit(d) == <<"0", "1", "2", "3", "4", "5", "6", "7", "8", "9">>[d + 1]
RECURSIVE IntText(_)
IntText(n) == IF n < 10 THEN <<Digit(n)>> ELSE IntText(n \div 10) \o <<Digit(n % 10)>>

BoolText(b) == IF b THEN <<"true">> ELSE <<"false">>

----------------------------------------------------------------------------
(* Inputs *)

\* ctx.from?.id: 0 stands for an absent id; user 1 is on the allow list
ALLOWED_USERS == {1}
UserIds == {0, 1, 2}
ChatIds == {0, 7}
Captions == {NoText, Summarize}
\* video.file_size: 0 stands for an absent size
FileSizes == {0, MAX_VIDEO_SIZE, MAX_VIDEO_SIZE + 1, 62914560}
\* retryAfter of the limiter, in hundredths of a second: 0.15 is a double
\* just under the decimal, 1.25 is the decimal itself
RetryAfters == {15, 125, 3000}
\* audio.file_name: NoText stands for an absent name
FileNames ==
    {NoText,
     <<"s", "o", "n", "g", ".", "o", "g", "g">>,
     <<"v", "o", "i", "c", "e", ".", "m", "e", "m", "o", ".", "o", "g", "g">>,
     <<"n", "o", "e", "x", "t">>,
     <<"t", "r", "a", "c", "k", ".">>}
\* what transcribeVoice returns: NoText stands for undefined (and for "")
Transcripts == {NoText, Hello, LongTranscript}
\* the same, and a transcript the preview has to cut
LongTranscripts == Transcripts \cup {VeryLongTranscript}
Responses == {<<"response">>}
\* String(error) of the failures the backend call raises
Descs == {DescAborted, DescCancelled, DescReset, DescUpper, DescLong}
\* String(error) of the failures the other awaited calls raise
TransportDescs == {DescAborted, DescReset}

\* time since the user's last request, in refill periods of the limiter
Elapsed == {0, 1}

\* An inbound event. Its caption and the file name of its audio are drawn
\* where the handler first uses them;
\* the handlers never read the size of an audio.
Events ==
    [kind : {"audio"}, userId : UserIds, chatId : ChatIds, hasMedia : BOOLEAN,
     fileSize : {0}]
    \cup
    [kind : {"video"}, userId : UserIds, chatId : ChatIds, hasMedia : BOOLEAN,
     fileSize : FileSizes]

\* What an invocation was started with, kept for the properties: whether the
\* event names a user, a chat and a media, whether its user is on the allow
\* list, whether its declared size is over 50 MiB, and whether the limiter was
\* rejecting its user then.
NoFacts == [complete |-> FALSE, listed |-> FALSE, oversize |-> FALSE, limited |-> FALSE]

\* The awaited calls of an invocation that failed are kept for the properties
\* (fails): the await, whether the call raised or returned nothing, and
\* String(error).
Failure(at, how, desc) == [at |-> at, how |-> how, desc |-> desc]

----------------------------------------------------------------------------
(* State *)

VARIABLES
    inv,                    \* per invocation: position, locals, calls made so far
    session,                \* the shared Session object
    tokens,                 \* rateLimiter: requests each user may still make
    files,                  \* scratch files present under TEMP_DIR
    transcriptionAvailable, \* config TRANSCRIPTION_AVAILABLE
    started,                \* handler invocations started so far
    titleWrites             \* history: assignments to session.conversationTitle

vars == <<inv, session, tokens, files, transcriptionAvailable, started, titleWrites>>

IdleInv ==
    [pc |-> "idle", kind |-> "none", caption |-> NoText, path |-> NoText,
     transcript |-> NoText, err |-> NoText, retry |-> 0, log |-> <<>>,
     outcome |-> "none", facts |-> NoFacts, fails |-> <<>>]

\* the state a segment of invocation i reads and writes
World(i) ==
    [me |-> inv[i], session |-> session, tokens |-> tokens, files |-> files,
     titleWrites |-> titleWrites]

Commit(i, w) ==
    /\ inv' = [inv EXCEPT ![i] = w.me]
    /\ session' = w.session
    /\ tokens' = w.tokens
    /\ files' = w.files
    /\ titleWrites' = w.titleWrites
    /\ UNCHANGED transcriptionAvailable

\* a segment after the first one
Continue(i, w) == Commit(i, w) /\ UNCHANGED started

Ev(op, arg) == [op |-> op, arg |-> arg]
Log(w, op, arg) == [w EXCEPT !.me.log = Append(@, Ev(op, arg))]
Await(w, p) == [w EXCEPT !.me.pc = p]
Return(w) == [w EXCEPT !.me.pc = "done", !.me.outcome = "returned"]
Throw(w) == [w EXCEPT !.me.pc = "done", !.me.outcome = "raised"]

\* session.conversationTitle = title; the history counts up to two writes
SetTitle(w, title) ==
    Log([w EXCEPT !.session.conversationTitle = title,
                  !.titleWrites = IF @ < 2 THEN @ + 1 ELSE @],
        "setTitle", title)


----------------------------------------------------------------------------
(* Collaborators: session.ts, security.ts, utils.ts, media-group.ts *)

IsAuthorized(userId) == userId \in ALLOWED_USERS

\* rateLimiter.check(userId): the budget refills with the time elapsed, and a
\* passing check consumes one unit of it
Refilled(w, userId, elapsed) ==
    IF w.tokens[userId] + elapsed > MaxTokens THEN MaxTokens
    ELSE w.tokens[userId] + elapsed
RateLimiterAllows(w, userId, elapsed) == Refilled(w, userId, elapsed) > 0
RateLimiterCheck(w, userId, elapsed) ==
    Log([w EXCEPT !.tokens[userId] =
            IF RateLimiterAllows(w, userId, elapsed)
            THEN Refilled(w, userId, elapsed) - 1
            ELSE Refilled(w, userId, elapsed)],
        "rateLimiter.check", BoolText(RateLimiterAllows(w, userId, elapsed)))

\* retryAfter is a binary double: the one nearest to h hundredths of a
\* second, m * 2^(e - 52) with 2^e <= h / 100 < 2^(e + 1)
BinaryExponent(h) ==
    CHOOSE e \in -7 .. 16 :
        IF e >= 0 THEN 100 * 2^e <= h /\ h < 200 * 2^e
        ELSE 100 <= h * 2^(0 - e) /\ h * 2^(0 - e) < 200

RECURSIVE Pow2Mod100(_)
Pow2Mod100(n) == IF n = 0 THEN 1 ELSE (2 * Pow2Mod100(n - 1)) % 100

\* what the division of h * 2^(52 - e) by 100 leaves: 0 when the double is
\* h / 100 itself, under 50 when the mantissa was rounded down (the double is
\* below h / 100), over 50 when it was rounded up
MantissaRemainder(h) ==
    IF h = 0 THEN 0
    ELSE ((h % 100) * Pow2Mod100(52 - BinaryExponent(h))) % 100

\* retryAfter.toFixed(1): the tenth nearest to the double, the larger one
\* when the double is half-way between two
ToFixed1(h) ==
    LET down == h \div 10
        tenths == IF h % 10 < 5 THEN down
                  ELSE IF h % 10 > 5 THEN down + 1
                  ELSE IF MantissaRemainder(h) > 0 /\ MantissaRemainder(h) < 50
                  THEN down
                  ELSE down + 1
    IN  IntText(tenths \div 10) \o <<".">> \o <<Digit(tenths % 10)>>

\* session.startProcessing(): unconditional and immediate; the returned
\* callback clears the flag
StartProcessing(w) ==
    Log([w EXCEPT !.session.isProcessing = TRUE], "startProcessing", NoText)
StopProcessing(w) ==
    Log([w EXCEPT !.session.isProcessing = FALSE], "stopProcessing", NoText)

StartTypingIndicator(w) == Log(w, "startTypingIndicator", NoText)
TypingStop(w) == Log(w, "typing.stop", NoText)

\* session.consumeInterruptFlag(): one-shot read-and-clear
ConsumeInterruptFlag(w) ==
    Log([w EXCEPT !.session.interruptFlag = FALSE],
        "consumeInterruptFlag", BoolText(w.session.interruptFlag))

SendMessageStreaming(w, prompt) ==
    Await(Log(w, "sendMessageStreaming", prompt), "streaming")

\* the backend call returned a response: the conversation is established
StreamSucceeded(w) == [w EXCEPT !.session.isActive = TRUE]

----------------------------------------------------------------------------
(* audio.ts *)

\* faulty variant: the classifier looks for "abort" alone
IsCancellationAbortOnly(desc) == Includes(desc, ABORT)

\* audio.ts:127
IsCancellation(desc) == Includes(desc, ABORT) \/ Includes(desc, CANCEL)

\* faulty variant: the error reply carries the whole description
ErrorReplyTextUnsliced(desc) == ERROR_PREFIX \o desc

\* audio.ts:133
ErrorReplyText(desc) == ERROR_PREFIX \o Slice(desc, 0, ErrorSliceLen)

\* audio.ts:83-91
DisplayTranscript(transcript) ==
    IF Len(transcript) > MaxDisplay
    THEN Slice(transcript, 0, MaxDisplay) \o ELLIPSIS1
    ELSE transcript
PreviewText(transcript) ==
    <<"(mic) ", "\"">> \o DisplayTranscript(transcript) \o <<"\"">>

\* faulty variant: the prompt is built from the transcript as displayed
AudioPromptFromPreview(transcript, caption) ==
    IF caption # NoText
    THEN DisplayTranscript(transcript) \o PROMPT_SEPARATOR \o caption
    ELSE DisplayTranscript(transcript)

\* audio.ts:95-97
AudioPrompt(transcript, caption) ==
    IF caption # NoText THEN transcript \o PROMPT_SEPARATOR \o caption ELSE transcript

\* audio.ts:101-104
AudioTitle(transcript) ==
    IF Len(transcript) > TitleLimit
    THEN Slice(transcript, 0, TitleKeep) \o ELLIPSIS3
    ELSE transcript

\* fileName.split(".").pop(): what follows the last "." of the name, the
\* whole name when it has none
LastSegment(fileName) ==
    LET dots == {k \in 1 .. Len(fileName) : fileName[k] = "."}
        last == IF dots = {} THEN 0 ELSE CHOOSE k \in dots : \A d \in dots : d <= k
    IN  SubSeq(fileName, last + 1, Len(fileName))

\* audio.ts:184: an absent name, or one that ends with ".", gives "mp3"
AudioExt(fileName) ==
    IF fileName = NoText \/ LastSegment(fileName) = <<>> THEN DEFAULT_AUDIO_EXT
    ELSE LastSegment(fileName)

\* audio.ts:183-185
AudioPath(ts, fileName) ==
    <<"TEMP_DIR", "/audio_">> \o IntText(ts) \o <<".">> \o AudioExt(fileName)

\* audio.ts:140-144: a failing unlinkSync is caught and only logged
UnlinkSync(w) ==
    Log([w EXCEPT !.files = @ \ {w.me.path}], "unlinkSync",
        BoolText(w.me.path \in w.files))

\* faulty variant: the finally block stops the typing indicator first
AudioFinallyTypingFirst(w) == UnlinkSync(StopProcessing(TypingStop(w)))

\* faulty variant: the finally block forgets to release the lock
AudioFinallyNoRelease(w) == UnlinkSync(TypingStop(w))

\* audio.ts:135-145
AudioFinally(w) == UnlinkSync(TypingStop(StopProcessing(w)))

\* faulty variant: the catch block reads the interrupt flag before it
\* classifies the failure
AudioCatchConsumesFirst(w, desc) ==
    LET wasInterrupt == w.session.interruptFlag
        w1 == ConsumeInterruptFlag(w)
    IN  IF IsCancellation(desc)
        THEN IF ~wasInterrupt
             THEN Await(Log(w1, "reply", QUERY_STOPPED_MSG), "catchReply")
             ELSE Return(AudioFinally(w1))
        ELSE Await(Log(w1, "reply", ErrorReplyText(desc)), "catchReply")

\* faulty variant: the catch block runs the cleanup before it classifies
AudioCatchCleansFirst(w, desc) ==
    IF IsCancellation(desc)
    THEN LET wasInterrupt == w.session.interruptFlag
             w1 == ConsumeInterruptFlag(AudioFinally(w))
         IN  IF ~wasInterrupt
             THEN Await(Log(w1, "reply", QUERY_STOPPED_MSG), "catchReply")
             ELSE Return(w1)
    ELSE Await(Log(AudioFinally(w), "reply", ErrorReplyText(desc)), "catchReply")

\* audio.ts:124-134
AudioCatch(w, desc) ==
    IF IsCancellation(desc)
    THEN LET wasInterrupt == w.session.interruptFlag
             w1 == ConsumeInterruptFlag(w)
         IN  IF ~wasInterrupt
             THEN Await(Log(w1, "reply", QUERY_STOPPED_MSG), "catchReply")
             ELSE Return(AudioFinally(w1))
    ELSE Await(Log(w, "reply", ErrorReplyText(desc)), "catchReply")

\* audio.ts:58-70
ProcessAudioFile(w) ==
    IF ~transcriptionAvailable
    THEN Await(Log(w, "reply", NOT_CONFIGURED_MSG), "cfgReply")
    ELSE Await(Log(StartTypingIndicator(StartProcessing(w)),
                   "reply", TRANSCRIBING_MSG), "statusReply")

\* faulty variant: the rate limit is checked before the authorization
HandleAudioRateFirst(w, ev, elapsed, retryAfter) ==
    IF ev.userId = 0 \/ ev.chatId = 0 \/ ~ev.hasMedia
    THEN Return(w)
    ELSE LET allowed == RateLimiterAllows(w, ev.userId, elapsed)
             w1 == RateLimiterCheck(w, ev.userId, elapsed)
         IN  IF ~allowed
             THEN Await(Log([w1 EXCEPT !.me.retry = retryAfter],
                            "auditLogRateLimit", IntText(retryAfter)), "rlAudit")
             ELSE IF ~IsAuthorized(ev.userId)
             THEN Await(Log(w1, "reply", UNAUTHORIZED_MSG), "denyReply")
             ELSE Await(Log(w1, "getFile", NoText), "getFile")

\* audio.ts:151-182
HandleAudio(w, ev, elapsed, retryAfter) ==
    IF ev.userId = 0 \/ ev.chatId = 0 \/ ~ev.hasMedia
    THEN Return(w)
    ELSE IF ~IsAuthorized(ev.userId)
    THEN Await(Log(w, "reply", UNAUTHORIZED_MSG), "denyReply")
    ELSE LET allowed == RateLimiterAllows(w, ev.userId, elapsed)
             w1 == RateLimiterCheck(w, ev.userId, elapsed)
         IN  IF ~allowed
             THEN Await(Log([w1 EXCEPT !.me.retry = retryAfter],
                            "auditLogRateLimit", IntText(retryAfter)), "rlAudit")
             ELSE Await(Log(w1, "getFile", NoText), "getFile")

\* faulty variant: the catch block of the download lacks its return
AudioDownloadFailedFallsThrough(w) ==
    ProcessAudioFile(Log(w, "reply", AUDIO_DOWNLOAD_FAILED_MSG))

\* audio.ts:192-196
AudioDownloadFailed(w) ==
    Await(Log(w, "reply", AUDIO_DOWNLOAD_FAILED_MSG), "dlFailNotice")

\* audio.ts:72-92
AudioTranscribed(w, transcript) ==
    IF transcript = NoText
    THEN Await(Log(w, "editMessageText", TRANSCRIPTION_FAILED_MSG), "failEdit")
    ELSE Await(Log([w EXCEPT !.me.transcript = transcript],
                   "editMessageText", PreviewText(transcript)), "previewEdit")

\* audio.ts:94-120
AudioSend(w0, caption) ==
    LET w == [w0 EXCEPT !.me.caption = caption]
        prompt == AudioPrompt(w.me.transcript, caption)
        w1 == IF ~w.session.isActive THEN SetTitle(w, AudioTitle(w.me.transcript))
              ELSE w
    IN  SendMessageStreaming(w1, prompt)

\* audio.ts:123
AudioAudit(w, response) ==
    Await(Log(w, "auditLog", <<"AUDIO">> \o w.me.transcript \o response), "audit")


----------------------------------------------------------------------------
(* video.ts *)

\* video.ts:31-32
VideoPath(ts) == <<"TEMP_DIR", "/video_">> \o IntText(ts) \o <<".", "mp4">>

\* video.ts:65
VideoTooLarge(fileSize) == fileSize # 0 /\ fileSize > MAX_VIDEO_SIZE

\* video.ts:66-68
TOO_LARGE_MSG ==
    <<"(x) Video too large. Maximum size is ">>
        \o IntText((MAX_VIDEO_SIZE \div 1024) \div 1024) \o <<"MB.">>

\* video.ts:113-115
VideoPrompt(path, caption) ==
    IF caption # NoText
    THEN <<"Here's a video file at path: ">> \o path \o <<"\n\nUser says: ">> \o caption
    ELSE <<"I've received a video file at path: ">> \o path
             \o <<"\n\nPlease transcribe it for me.">>

\* video.ts:119-121
VideoTitle(caption) ==
    LET rawTitle == IF caption # NoText THEN caption ELSE VIDEO_PLACEHOLDER_TITLE
    IN  IF Len(rawTitle) > TitleLimit
        THEN Slice(rawTitle, 0, TitleKeep) \o ELLIPSIS3
        ELSE rawTitle

\* faulty variant: the finally block leaves the typing indicator running
VideoFinallyLeavesTyping(w) == StopProcessing(w)

\* video.ts:157-164: the video file is left in place
VideoFinally(w) == TypingStop(StopProcessing(w))

\* faulty variant: the verdict of the limiter is ignored
HandleVideoIgnoresLimit(w, ev, elapsed, retryAfter) ==
    IF ev.userId = 0 \/ ev.chatId = 0 \/ ~ev.hasMedia
    THEN Return(w)
    ELSE IF ~IsAuthorized(ev.userId)
    THEN Await(Log(w, "reply", UNAUTHORIZED_MSG), "denyReply")
    ELSE IF VideoTooLarge(ev.fileSize)
    THEN Await(Log(w, "reply", TOO_LARGE_MSG), "sizeReply")
    ELSE Await(Log(RateLimiterCheck(w, ev.userId, elapsed),
                   "reply", DOWNLOADING_VIDEO_MSG), "videoStatusReply")

\* faulty variant: the rate limit is checked before the size
HandleVideoRateFirst(w, ev, elapsed, retryAfter) ==
    IF ev.userId = 0 \/ ev.chatId = 0 \/ ~ev.hasMedia
    THEN Return(w)
    ELSE IF ~IsAuthorized(ev.userId)
    THEN Await(Log(w, "reply", UNAUTHORIZED_MSG), "denyReply")
    ELSE LET allowed == RateLimiterAllows(w, ev.userId, elapsed)
             w1 == RateLimiterCheck(w, ev.userId, elapsed)
         IN  IF ~allowed
             THEN Await(Log([w1 EXCEPT !.me.retry = retryAfter],
                            "auditLogRateLimit", IntText(retryAfter)), "rlAudit")
             ELSE IF VideoTooLarge(ev.fileSize)
             THEN Await(Log(w1, "reply", TOO_LARGE_MSG), "sizeReply")
             ELSE Await(Log(w1, "reply", DOWNLOADING_VIDEO_MSG), "videoStatusReply")

\* video.ts:47-86
HandleVideo(w, ev, elapsed, retryAfter) ==
    IF ev.userId = 0 \/ ev.chatId = 0 \/ ~ev.hasMedia
    THEN Return(w)
    ELSE IF ~IsAuthorized(ev.userId)
    THEN Await(Log(w, "reply", UNAUTHORIZED_MSG), "denyReply")
    ELSE IF VideoTooLarge(ev.fileSize)
    THEN Await(Log(w, "reply", TOO_LARGE_MSG), "sizeReply")
    ELSE LET allowed == RateLimiterAllows(w, ev.userId, elapsed)
             w1 == RateLimiterCheck(w, ev.userId, elapsed)
         IN  IF ~allowed
             THEN Await(Log([w1 EXCEPT !.me.retry = retryAfter],
                            "auditLogRateLimit", IntText(retryAfter)), "rlAudit")
             ELSE Await(Log(w1, "reply", DOWNLOADING_VIDEO_MSG), "videoStatusReply")

\* video.ts:90-98
VideoDownloadFailed(w) ==
    Await(Log(w, "editMessageText", VIDEO_DOWNLOAD_FAILED_MSG), "dlFailNotice")

\* video.ts:101-110
ProcessVideo(w) ==
    Await(Log(StartTypingIndicator(StartProcessing(w)),
              "editMessageText", PROCESSING_VIDEO_MSG), "procEdit")

\* faulty variant: the lock is released before the backend call is made
VideoSendReleasesFirst(w0, caption) ==
    LET w == [StopProcessing(w0) EXCEPT !.me.caption = caption]
        prompt == VideoPrompt(w.me.path, w.me.caption)
        w1 == IF ~w.session.isActive THEN SetTitle(w, VideoTitle(w.me.caption))
              ELSE w
    IN  SendMessageStreaming(w1, prompt)

\* video.ts:52,112-136
VideoSend(w0, caption) ==
    LET w == [w0 EXCEPT !.me.caption = caption]
        prompt == VideoPrompt(w.me.path, w.me.caption)
        w1 == IF ~w.session.isActive THEN SetTitle(w, VideoTitle(w.me.caption))
              ELSE w
    IN  SendMessageStreaming(w1, prompt)

\* video.ts:138-142
VideoAudit(w, response) ==
    Await(Log(w, "auditLog",
              <<"VIDEO">> \o (IF w.me.caption # NoText THEN w.me.caption
                              ELSE VIDEO_PLACEHOLDER_AUDIT) \o response), "audit")

\* faulty variant: the catch block writes the audit record of the failed turn
VideoCatchAudits(w, desc) ==
    Await(Log(Log([w EXCEPT !.me.err = desc], "auditLog", <<"VIDEO">> \o desc),
              "deleteMessage", NoText), "deleteOnError")

\* video.ts:146-154
VideoCatch(w, desc) ==
    Await(Log([w EXCEPT !.me.err = desc], "deleteMessage", NoText), "deleteOnError")

\* media-group.ts handleProcessingError(ctx, error, []): the classifier.
\* video.ts:156 awaits the call, so the handler yields even when the
\* classifier had nothing to wait for: the finally block runs in a later
\* step
HandleProcessingError(w, desc) ==
    IF Includes(desc, ABORT) \/ Includes(desc, CANCEL)
    THEN LET wasInterrupt == w.session.interruptFlag
             w1 == ConsumeInterruptFlag(w)
         IN  IF ~wasInterrupt
             THEN Await(Log(w1, "reply", QUERY_STOPPED_MSG), "catchReply")
             ELSE Await(w1, "classified")
    ELSE Await(Log(w, "reply", ERROR_PREFIX \o Slice(desc, 0, ErrorSliceLen)),
               "catchReply")

----------------------------------------------------------------------------
(* Actions: one per synchronous segment of a handler *)

FactsOf(ev, budget, elapsed) ==
    [complete |-> ev.userId # 0 /\ ev.chatId # 0 /\ ev.hasMedia,
     listed |-> ev.userId \in {1},
     oversize |-> ev.kind = "video" /\ ev.fileSize >= 52428801,
     limited |-> budget[ev.userId] + elapsed = 0]

IsAudio(i) == inv[i].kind = "audio"
IsVideo(i) == inv[i].kind = "video"
At(i, p) == inv[i].pc = p
\* A settled handler is taken off before any other task runs.
NoneSettled == \A j \in Procs : ~At(j, "done")
Ready(i, p) == NoneSettled /\ At(i, p)

\* An inbound media event starts handleAudio or handleVideo, which runs up to
\* its first await.
Arrives(i, events) ==
    /\ Ready(i, "idle")
    /\ \A j \in Procs : j < i => ~At(j, "idle")
    /\ started < MaxInv
    /\ started' = started + 1
    /\ \E ev \in events, elapsed \in Elapsed, retryAfter \in RetryAfters :
         LET w == [World(i) EXCEPT !.me.kind = ev.kind,
                                   !.me.facts = FactsOf(ev, tokens, elapsed)]
         IN  Commit(i, IF ev.kind = "audio" THEN HandleAudio(w, ev, elapsed, retryAfter)
                       ELSE HandleVideo(w, ev, elapsed, retryAfter))

Start(i) == Arrives(i, Events)

\* The runtime takes the settled promise of a finished handler; nothing of
\* the invocation remains.
Retire(i) ==
    /\ At(i, "done")
    /\ inv' = [inv EXCEPT ![i] = IdleInv]
    /\ UNCHANGED <<session, tokens, files, transcriptionAvailable, started, titleWrites>>

\* The reply of a gate stage settles; the handler returns, or the failed
\* reply propagates out of the handler.
GateReplySettles(i) ==
    /\ NoneSettled
    /\ inv[i].pc \in {"denyReply", "sizeReply", "rlReply", "dlFailNotice", "cfgReply"}
    /\ \E ok \in BOOLEAN :
         Continue(i, IF ok THEN Return(World(i)) ELSE Throw(World(i)))

\* audio.ts:170-174, video.ts:75-79
ThrottleAuditSettles(i) ==
    /\ Ready(i, "rlAudit")
    /\ \E ok \in BOOLEAN :
         Continue(i, IF ok
                   THEN Await(Log(World(i), "reply",
                                  <<"(wait) Rate limited. Please wait ">>
                                      \o ToFixed1(inv[i].retry) \o <<" seconds.">>),
                              "rlReply")
                   ELSE Throw(World(i)))

\* the world of invocation i once the call it awaits has raised d
Raised(i, d) ==
    [World(i) EXCEPT !.me.fails = Append(@, Failure(inv[i].pc, "raised", d))]
\* the world of invocation i once the call it awaits has returned nothing
Empty(i) ==
    [World(i) EXCEPT !.me.fails = Append(@, Failure(inv[i].pc, "empty", NoText))]

DownloadFailed(i) ==
    IF IsAudio(i) THEN AudioDownloadFailed(Raised(i, DescReset))
    ELSE VideoDownloadFailed(Raised(i, DescReset))

\* video.ts:86-89,22-27
VideoStatusReplySettles(i) ==
    /\ Ready(i, "videoStatusReply")
    /\ \E ok \in BOOLEAN :
         Continue(i, IF ok THEN Await(Log(World(i), "getFile", NoText), "getFile")
                   ELSE Throw(World(i)))

\* audio.ts:182-189, video.ts:27-37
GetFileSettles(i) ==
    /\ Ready(i, "getFile")
    /\ \E ok \in BOOLEAN, ts \in Timestamps,
          fileName \in (IF IsAudio(i) THEN FileNames ELSE {NoText}) :
         Continue(i, IF ok
                   THEN Await(Log([World(i) EXCEPT !.me.path =
                                      IF IsAudio(i) THEN AudioPath(ts, fileName)
                                      ELSE VideoPath(ts)],
                                  "fetch", NoText), "fetch")
                   ELSE DownloadFailed(i))

\* audio.ts:187-190, video.ts:35-38
FetchSettles(i) ==
    /\ Ready(i, "fetch")
    /\ \E ok \in BOOLEAN :
         Continue(i, IF ok THEN Await(Log(World(i), "arrayBuffer", NoText), "arrayBuffer")
                   ELSE DownloadFailed(i))

\* audio.ts:190-191, video.ts:38-39
ArrayBufferSettles(i) ==
    /\ Ready(i, "arrayBuffer")
    /\ \E ok \in BOOLEAN :
         Continue(i, IF ok THEN Await(Log(World(i), "Bun.write", inv[i].path), "write")
                   ELSE DownloadFailed(i))

\* audio.ts:191-206,58-70, video.ts:39-41,89,101-110
WriteSettles(i) ==
    /\ Ready(i, "write")
    /\ \E ok \in BOOLEAN :
         Continue(i, IF ok
                   THEN LET w == [World(i) EXCEPT !.files = @ \cup {inv[i].path}]
                        IN  IF IsAudio(i) THEN ProcessAudioFile(w) ELSE ProcessVideo(w)
                   ELSE DownloadFailed(i))


\* how an awaited call settles: it returns, or raises a failure described by
\* one of descs
Settled(descs) ==
    {[ok |-> TRUE, desc |-> NoText]} \cup {[ok |-> FALSE, desc |-> d] : d \in descs}

\* audio.ts:70-72
StatusReplySettles(i) ==
    /\ Ready(i, "statusReply")
    /\ \E r \in Settled(TransportDescs) :
         Continue(i, IF r.ok
                   THEN Await(Log(World(i), "transcribeVoice", inv[i].path), "transcribe")
                   ELSE AudioCatch(Raised(i, r.desc), r.desc))

\* audio.ts:72-92
Transcribed(i, transcripts) ==
    /\ Ready(i, "transcribe")
    /\ \/ \E t \in transcripts :
            Continue(i, AudioTranscribed(IF t = NoText THEN Empty(i) ELSE World(i), t))
       \/ \E d \in TransportDescs : Continue(i, AudioCatch(Raised(i, d), d))

TranscribeSettles(i) == Transcribed(i, Transcripts)

\* audio.ts:72-92, the transcript possibly longer than the preview shows
LongTranscribeSettles(i) == Transcribed(i, LongTranscripts)

\* audio.ts:74-80
FailEditSettles(i) ==
    /\ Ready(i, "failEdit")
    /\ \E r \in Settled(TransportDescs) :
         Continue(i, IF r.ok THEN Return(AudioFinally(World(i)))
                   ELSE AudioCatch(Raised(i, r.desc), r.desc))

\* audio.ts:88-120
PreviewEditSettles(i) ==
    /\ Ready(i, "previewEdit")
    /\ \/ \E caption \in Captions : Continue(i, AudioSend(World(i), caption))
       \/ \E d \in TransportDescs : Continue(i, AudioCatch(Raised(i, d), d))

\* video.ts:106-136
ProcEditSettles(i) ==
    /\ Ready(i, "procEdit")
    /\ \/ \E caption \in Captions : Continue(i, VideoSend(World(i), caption))
       \/ \E d \in TransportDescs : Continue(i, VideoCatch(Raised(i, d), d))

\* audio.ts:113-123, video.ts:129-138
StreamSettles(i) ==
    /\ Ready(i, "streaming")
    /\ \/ \E resp \in Responses :
            LET w == StreamSucceeded(World(i))
            IN  Continue(i, IF IsAudio(i) THEN AudioAudit(w, resp) ELSE VideoAudit(w, resp))
       \/ \E d \in Descs :
            Continue(i, IF IsAudio(i) THEN AudioCatch(Raised(i, d), d)
                        ELSE VideoCatch(Raised(i, d), d))

\* audio.ts:123,135-145, video.ts:138-142
AuditSettles(i) ==
    /\ Ready(i, "audit")
    /\ \E r \in Settled(TransportDescs) :
         Continue(i, IF IsAudio(i)
                   THEN (IF r.ok THEN Return(AudioFinally(World(i)))
                         ELSE AudioCatch(Raised(i, r.desc), r.desc))
                   ELSE (IF r.ok
                         THEN Await(Log(World(i), "deleteMessage", NoText), "deleteStatus")
                         ELSE VideoCatch(Raised(i, r.desc), r.desc)))

\* video.ts:141-145,157-164: a failing deleteMessage is ignored
DeleteStatusSettles(i) ==
    /\ Ready(i, "deleteStatus")
    /\ \E ok \in BOOLEAN : Continue(i, Return(VideoFinally(World(i))))

\* video.ts:150-156: a failing deleteMessage is ignored
DeleteOnErrorSettles(i) ==
    /\ Ready(i, "deleteOnError")
    /\ \E ok \in BOOLEAN : Continue(i, HandleProcessingError(World(i), inv[i].err))

\* video.ts:156-164: the await of a classifier that sent nothing resumes,
\* then the finally block runs
ClassifiedSettles(i) ==
    /\ Ready(i, "classified")
    /\ Continue(i, Return(VideoFinally(World(i))))

\* audio.ts:130-145, video.ts:156-164: the reply of the classifier settles,
\* then the finally block runs
CatchReplySettles(i) ==
    /\ Ready(i, "catchReply")
    /\ \E ok \in BOOLEAN :
         LET w == IF IsAudio(i) THEN AudioFinally(World(i)) ELSE VideoFinally(World(i))
         IN  Continue(i, IF ok THEN Return(w) ELSE Throw(w))

(* Environment *)

\* another trigger interrupts the query in flight and says so itself
Interrupt ==
    /\ \E i \in Procs : Ready(i, "streaming")
    /\ ~session.interruptFlag
    /\ session' = [session EXCEPT !.interruptFlag = TRUE]
    /\ UNCHANGED <<inv, tokens, files, transcriptionAvailable, started, titleWrites>>

\* the backend reports the conversation while a streaming call is in flight
SessionEstablished ==
    /\ \E i \in Procs : Ready(i, "streaming")
    /\ ~session.isActive
    /\ session' = [session EXCEPT !.isActive = TRUE]
    /\ UNCHANGED <<inv, tokens, files, transcriptionAvailable, started, titleWrites>>

\* something else removes the scratch file of a running audio handler from
\* the temp directory (the cleanup video.ts relies on for its files): the
\* unlinkSync of the handler then fails
TempDirCleanup ==
    /\ NoneSettled
    /\ \E i \in Procs :
         /\ IsAudio(i)
         /\ inv[i].path \in files
         /\ files' = files \ {inv[i].path}
    /\ UNCHANGED <<inv, session, tokens, transcriptionAvailable, started, titleWrites>>

Init ==
    /\ inv = [i \in Procs |-> IdleInv]
    /\ session = [isProcessing |-> FALSE, isActive |-> FALSE,
                  conversationTitle |-> NoText, interruptFlag |-> FALSE]
    /\ tokens = [u \in UserIds |-> MaxTokens]
    /\ files = {}
    /\ transcriptionAvailable \in BOOLEAN
    /\ started = 0
    /\ titleWrites = 0

\* The surrounding bot hands the handlers one event at a time: the next
\* handler starts when the previous one has settled.
StartInTurn(i) ==
    /\ \A j \in Procs : At(j, "idle")
    /\ Start(i)

Settle(i) ==
    \/ GateReplySettles(i)
    \/ ThrottleAuditSettles(i)
    \/ VideoStatusReplySettles(i)
    \/ GetFileSettles(i)
    \/ FetchSettles(i)
    \/ ArrayBufferSettles(i)
    \/ WriteSettles(i)
    \/ StatusReplySettles(i)
    \/ TranscribeSettles(i)
    \/ FailEditSettles(i)
    \/ PreviewEditSettles(i)
    \/ ProcEditSettles(i)
    \/ StreamSettles(i)
    \/ AuditSettles(i)
    \/ DeleteStatusSettles(i)
    \/ DeleteOnErrorSettles(i)
    \/ ClassifiedSettles(i)
    \/ CatchReplySettles(i)

Next ==
    \/ \E i \in Procs : StartInTurn(i)
    \/ \E i \in Procs : Settle(i)
    \/ \E i \in Procs : Retire(i)
    \/ Interrupt
    \/ SessionEstablished
    \/ TempDirCleanup

\* The handlers of one Session, one event at a time.
Spec == Init /\ [][Next]_vars

\* The first event of a Session is an audio.
StartFirstAudio(i) ==
    /\ started = 0
    /\ Arrives(i, {ev \in Events : ev.kind = "audio"})

NextLong ==
    \/ \E i \in Procs : StartFirstAudio(i)
    \/ \E i \in Procs : GateReplySettles(i)
    \/ \E i \in Procs : GetFileSettles(i)
    \/ \E i \in Procs : FetchSettles(i)
    \/ \E i \in Procs : ArrayBufferSettles(i)
    \/ \E i \in Procs : WriteSettles(i)
    \/ \E i \in Procs : StatusReplySettles(i)
    \/ \E i \in Procs : LongTranscribeSettles(i)
    \/ \E i \in Procs : FailEditSettles(i)
    \/ \E i \in Procs : PreviewEditSettles(i)
    \/ \E i \in Procs : StreamSettles(i)
    \/ \E i \in Procs : AuditSettles(i)
    \/ \E i \in Procs : CatchReplySettles(i)
    \/ \E i \in Procs : Retire(i)
    \/ Interrupt
    \/ SessionEstablished
    \/ TempDirCleanup

\* handleAudio on the first event of a Session, with transcripts of up to one
\* character more than the preview shows.
SpecLong == Init /\ [][NextLong]_vars

\* An event may arrive while another handler waits at an await; the scratch
\* files are touched by the handlers alone.
NextInterleaved ==
    \/ \E i \in Procs : Start(i)
    \/ \E i \in Procs : Settle(i)
    \/ \E i \in Procs : Retire(i)
    \/ Interrupt
    \/ SessionEstablished

\* The handlers of one Session, interleaved at their await points.
SpecInterleaved == Init /\ [][NextInterleaved]_vars


----------------------------------------------------------------------------
(* Properties *)

Calls(i, op) == {k \in DOMAIN inv[i].log : inv[i].log[k].op = op}
Count(i, op) == Cardinality(Calls(i, op))
Says(i, op, text) == {k \in Calls(i, op) : inv[i].log[k].arg = text}
Finished(i) == At(i, "done")
Begun(i) == ~At(i, "idle")

\* the invocation holds the lock: startProcessing called, release not yet
Holds(i) == Count(i, "startProcessing") > Count(i, "stopProcessing")

\* the awaits of the download step and of the guarded region of audio
DownloadAwaits == {"getFile", "fetch", "arrayBuffer", "write"}
FailedDownload(i) ==
    \E k \in DOMAIN inv[i].fails : inv[i].fails[k].at \in DownloadAwaits
NoTranscript(i) ==
    \E k \in DOMAIN inv[i].fails : inv[i].fails[k].how = "empty"

HasMarker(desc) ==
    \E k \in 1 .. Len(desc) :
        \/ k + 4 <= Len(desc) /\ SubSeq(desc, k, k + 4) = <<"a", "b", "o", "r", "t">>
        \/ k + 5 <= Len(desc) /\ SubSeq(desc, k, k + 5) = <<"c", "a", "n", "c", "e", "l">>

\* the failure the catch block of the invocation caught, if any: the one
\* raised inside the guarded region
CaughtIn(i) ==
    {k \in DOMAIN inv[i].fails :
        /\ inv[i].fails[k].how = "raised"
        /\ inv[i].fails[k].at \notin DownloadAwaits}
IsErrorDetail(text) == Len(text) > 0 /\ text[1] = "(x) Error: "


Last(seq) == seq[Len(seq)]

\* C1: with handler invocations interleaved at their await points on the same
\* Session, no two invocations hold an acquired processing lock at the same
\* time, and no two sendMessageStreaming calls are in flight at the same time.
C1_SingleFlight ==
    \A i, j \in Procs :
        i # j =>
            /\ ~(Holds(i) /\ Holds(j))
            /\ ~(At(i, "streaming") /\ At(j, "streaming"))

\* C2: when an invocation terminates, the release callback was called as often
\* as startProcessing: once if the lock was acquired, never if the invocation
\* ended before acquisition, and then no error is raised.
C2_ReleasePaired ==
    \A i \in Procs :
        Finished(i) =>
            /\ Count(i, "startProcessing") <= 1
            /\ Count(i, "stopProcessing") = Count(i, "startProcessing")
            /\ (Count(i, "startProcessing") = 0 => inv[i].outcome = "returned")

\* C2 as amended: when an invocation terminates, the release callback was
\* called as often as startProcessing: once if the lock was acquired, never if
\* the invocation ended before acquisition; an invocation that ended before
\* acquisition ran no cleanup step, and raises an error only when the call it
\* awaited last (a reply, the edit of the status message or the write of the
\* throttle audit record) raised it.
C2_ReleasePairedAmended ==
    \A i \in Procs :
        Finished(i) =>
            /\ Count(i, "startProcessing") <= 1
            /\ Count(i, "stopProcessing") = Count(i, "startProcessing")
            /\ (Count(i, "startProcessing") = 0 =>
                    /\ Count(i, "typing.stop") = 0
                    /\ Count(i, "unlinkSync") = 0
                    /\ (inv[i].outcome = "raised" =>
                            /\ inv[i].log # <<>>
                            /\ Last(inv[i].log).op \in
                                   {"reply", "editMessageText", "auditLogRateLimit"}))

\* an invocation that acquired the lock ended by raising the failure of the
\* reply of its error handler, the lock released once
C2_Witness ==
    \E i \in Procs :
        /\ Finished(i)
        /\ inv[i].outcome = "raised"
        /\ CaughtIn(i) # {}
        /\ Count(i, "startProcessing") = 1
        /\ Count(i, "stopProcessing") = 1

\* C3: an invocation whose user is not on the allow list sends the denial
\* reply once and calls nothing else: no rateLimiter.check, no getFile or
\* fetch, no audit record, no startProcessing, no sendMessageStreaming.
C3_UnauthorizedOnlyDenied ==
    \A i \in Procs :
        (Begun(i) /\ inv[i].facts.complete /\ ~inv[i].facts.listed) =>
            inv[i].log =
                << [op |-> "reply",
                    arg |-> <<"Unauthorized. Contact the bot owner for access.">>] >>

C3_Witness ==
    \E i \in Procs :
        /\ Finished(i)
        /\ inv[i].facts.complete
        /\ ~inv[i].facts.listed
        /\ Count(i, "reply") = 1

\* what a rate-limited invocation must have done and not done
ThrottledOnly(i) ==
    /\ Count(i, "auditLogRateLimit") = 1
    /\ Count(i, "auditLog") = 0
    /\ Count(i, "getFile") = 0
    /\ Count(i, "fetch") = 0
    /\ Count(i, "Bun.write") = 0
    /\ inv[i].path = NoText
    /\ Count(i, "startProcessing") = 0

\* C4: an invocation by a user whom the rate limiter currently rejects
\* produces one throttle audit record and no content audit record, attempts no
\* download, creates no scratch file and never acquires the processing lock.
C4_RateLimited ==
    \A i \in Procs :
        (Begun(i) /\ inv[i].facts.complete /\ inv[i].facts.listed
                  /\ inv[i].facts.limited) => ThrottledOnly(i)

\* C4 as amended: an invocation that reaches the rate-limit check (its user is
\* on the allow list and, for a video, the declared size is not over 50 MiB) by
\* a user whom the rate limiter currently rejects produces one throttle audit
\* record and no content audit record, attempts no download, creates no
\* scratch file and never acquires the processing lock.
C4_RateLimitedAmended ==
    \A i \in Procs :
        (Begun(i) /\ inv[i].facts.complete /\ inv[i].facts.listed
                  /\ inv[i].facts.limited /\ ~inv[i].facts.oversize) =>
            /\ ThrottledOnly(i)
            /\ Count(i, "rateLimiter.check") = 1

C4_Witness ==
    \E i \in Procs :
        /\ Finished(i)
        /\ inv[i].facts.complete /\ inv[i].facts.listed
        /\ inv[i].facts.limited /\ ~inv[i].facts.oversize
        /\ Count(i, "auditLogRateLimit") = 1


\* the one consumeInterruptFlag call of an invocation that made one
ConsumeAt(i) == CHOOSE c \in Calls(i, "consumeInterruptFlag") : TRUE
RepliesAfter(i, k) == {m \in Calls(i, "reply") : m > k}

\* C5: in the audio pipeline, for a failure caught from the guarded region
\* whose description contains "abort" or "cancel": no reply at all is sent for
\* it if consumeInterruptFlag() returned true, exactly one "Query stopped"
\* notice if it returned false, and never an error-detail reply.
C5_CancellationDedup ==
    \A i \in Procs :
        \A k \in CaughtIn(i) :
            (IsAudio(i) /\ HasMarker(inv[i].fails[k].desc)) =>
                /\ Count(i, "consumeInterruptFlag") = 1
                /\ IF inv[i].log[ConsumeAt(i)].arg = <<"true">>
                   THEN RepliesAfter(i, ConsumeAt(i)) = {}
                   ELSE /\ RepliesAfter(i, ConsumeAt(i)) = {ConsumeAt(i) + 1}
                        /\ inv[i].log[ConsumeAt(i) + 1].arg = <<"(stop) Query stopped.">>
                /\ \A m \in Calls(i, "reply") : ~IsErrorDetail(inv[i].log[m].arg)

\* an audio invocation caught a cancellation that was already acknowledged
\* and ended without a reply for it
C5_Witness ==
    \E i \in Procs :
        /\ IsAudio(i)
        /\ Finished(i)
        /\ \E k \in CaughtIn(i) : HasMarker(inv[i].fails[k].desc)
        /\ Says(i, "consumeInterruptFlag", <<"true">>) # {}

\* the sendMessageStreaming call of an invocation that made one
StreamAt(i) == CHOOSE c \in Calls(i, "sendMessageStreaming") : TRUE
First200(desc) == IF Len(desc) <= 200 THEN desc ELSE [k \in 1 .. 200 |-> desc[k]]

\* C6: in the audio pipeline, when sendMessageStreaming raises a failure whose
\* description contains neither "abort" nor "cancel", exactly one reply is
\* sent, the fixed error prefix followed by the first 200 characters of the
\* description at most, no stopped notice is sent, and the lock is released
\* by the time the handler terminates.
C6_GenuineError ==
    \A i \in Procs :
        \A k \in CaughtIn(i) :
            (IsAudio(i) /\ inv[i].fails[k].at = "streaming"
                        /\ ~HasMarker(inv[i].fails[k].desc)) =>
                /\ RepliesAfter(i, StreamAt(i)) = {StreamAt(i) + 1}
                /\ inv[i].log[StreamAt(i) + 1].arg =
                       <<"(x) Error: ">> \o First200(inv[i].fails[k].desc)
                /\ Says(i, "reply", <<"(stop) Query stopped.">>) = {}
                /\ Count(i, "consumeInterruptFlag") = 0
                /\ (Finished(i) =>
                        /\ Count(i, "startProcessing") = 1
                        /\ Count(i, "stopProcessing") = 1)

\* an audio invocation ended after its streaming call raised a genuine error
\* with a description of more than 200 characters
C6_Witness ==
    \E i \in Procs :
        /\ IsAudio(i)
        /\ Finished(i)
        /\ \E k \in CaughtIn(i) :
              /\ inv[i].fails[k].at = "streaming"
              /\ ~HasMarker(inv[i].fails[k].desc)
              /\ Len(inv[i].fails[k].desc) > 200

\* C7: across the audio and video turns of one conversation,
\* session.conversationTitle is assigned at most once.
C7_TitleWriteOnce == titleWrites <= 1

\* C8: an authorized handleVideo invocation whose declared size exceeds
\* 50 MiB sends the size-exceeded reply once and ends without a
\* rateLimiter.check, a download call, a scratch file or the processing lock.
C8_OversizeRejectedFirst ==
    \A i \in Procs :
        (Begun(i) /\ IsVideo(i) /\ inv[i].facts.complete /\ inv[i].facts.listed
                  /\ inv[i].facts.oversize) =>
            /\ inv[i].log =
                   << [op |-> "reply",
                       arg |-> <<"(x) Video too large. Maximum size is ",
                                 "5", "0", "MB.">>] >>
            /\ inv[i].path = NoText
            /\ inv[i].pc \in {"sizeReply", "done"}

C8_Witness ==
    \E i \in Procs :
        /\ Finished(i)
        /\ IsVideo(i)
        /\ inv[i].facts.complete /\ inv[i].facts.listed /\ inv[i].facts.oversize
        /\ inv[i].facts.limited

\* C9: an invocation whose download step (getFile, fetch or the local write)
\* fails tells the user the fixed download-failure message once and never
\* calls startProcessing, startTypingIndicator, transcribeVoice or
\* sendMessageStreaming.
C9_DownloadFailure ==
    \A i \in Procs :
        FailedDownload(i) =>
            /\ IF IsAudio(i)
               THEN /\ Cardinality(Says(i, "reply",
                                        <<"(x) Failed to download audio file.">>)) = 1
                    /\ Count(i, "reply") = 1
               ELSE /\ Cardinality(Says(i, "editMessageText",
                                        <<"(x) Failed to download video.">>)) = 1
                    /\ Count(i, "editMessageText") = 1
            /\ Count(i, "startProcessing") = 0
            /\ Count(i, "startTypingIndicator") = 0
            /\ Count(i, "transcribeVoice") = 0
            /\ Count(i, "sendMessageStreaming") = 0
            /\ inv[i].pc \in {"dlFailNotice", "done"}

\* an audio invocation ended after the local write of its download failed
C9_Witness ==
    \E i \in Procs :
        /\ Finished(i)
        /\ IsAudio(i)
        /\ \E k \in DOMAIN inv[i].fails : inv[i].fails[k].at = "write"
        /\ Count(i, "reply") = 1

\* what holds of an audio invocation whose transcription returned no text,
\* the lock apart
TranscriptionFailedHandled(i) ==
    /\ Cardinality(Says(i, "editMessageText", <<"(x) Transcription failed.">>)) = 1
    /\ Count(i, "sendMessageStreaming") = 0
    /\ (Finished(i) =>
            /\ Count(i, "unlinkSync") = 1
            /\ inv[i].path \notin files)

\* C10: in the audio pipeline, when transcribeVoice returns no text, the
\* status message is edited to the transcription-failed marker,
\* sendMessageStreaming is never called, the processing lock is never acquired
\* during the invocation, and the scratch file is deleted before the handler
\* terminates.
C10_TranscriptionFailure ==
    \A i \in Procs :
        NoTranscript(i) =>
            /\ TranscriptionFailedHandled(i)
            /\ Count(i, "startProcessing") = 0

\* an audio invocation by a listed user whom the limiter lets through
PassedGates(i) ==
    /\ IsAudio(i)
    /\ inv[i].facts.complete /\ inv[i].facts.listed /\ ~inv[i].facts.limited

\* C11: when the transcription capability is off, a handleAudio invocation by
\* an authorized user who is not rate limited attempts no download (no getFile,
\* no fetch, no scratch file), never acquires the processing lock, and ends
\* with the configuration-error reply.
C11_NotConfiguredShortCircuit ==
    \A i \in Procs :
        (~transcriptionAvailable /\ PassedGates(i)) =>
            /\ Count(i, "getFile") = 0
            /\ Count(i, "fetch") = 0
            /\ Count(i, "Bun.write") = 0
            /\ inv[i].path \notin files
            /\ Count(i, "startProcessing") = 0
            /\ (Finished(i) =>
                   Says(i, "reply",
                        <<"Voice transcription is not configured. Set OPENAI_API_KEY in .env">>)
                       # {})

\* the local write of the download of the invocation returned
Written(i) ==
    /\ Calls(i, "Bun.write") # {}
    /\ ~At(i, "write")
    /\ \A k \in DOMAIN inv[i].fails : inv[i].fails[k].at # "write"

\* C12: every scratch file a handleAudio invocation wrote has been deleted
\* (unlinkSync attempted) by the time the invocation terminates, on every exit
\* path, the configuration-error reply included.
C12_ScratchFileDeleted ==
    \A i \in Procs :
        (IsAudio(i) /\ Finished(i) /\ Written(i)) =>
            /\ Count(i, "unlinkSync") = 1
            /\ inv[i].path \notin files

\* the replies the classifier of the catch block sends: the stopped notice and
\* the error-detail reply
ClassifierReplies(i) ==
    {m \in Calls(i, "reply") :
        \/ inv[i].log[m].arg = <<"(stop) Query stopped.">>
        \/ IsErrorDetail(inv[i].log[m].arg)}
CleanupCalls(i) ==
    Calls(i, "stopProcessing") \cup Calls(i, "typing.stop") \cup Calls(i, "unlinkSync")
\* the invocation acquired the lock and then caught a failure
FailedInRegion(i) == Count(i, "startProcessing") = 1 /\ CaughtIn(i) # {}

\* C13: for an invocation that acquired the lock and then fails inside the
\* guarded region, the lock release, the stop of the typing indicator and (for
\* audio) the deletion of the scratch file all happen before the stopped
\* notice or the error-detail reply is sent.
C13_CleanupBeforeMessage ==
    \A i \in Procs :
        FailedInRegion(i) =>
            \A m \in ClassifierReplies(i) :
                /\ \E c \in Calls(i, "stopProcessing") : c < m
                /\ \E c \in Calls(i, "typing.stop") : c < m
                /\ IsAudio(i) => \E c \in Calls(i, "unlinkSync") : c < m

\* C13 as amended: for an invocation that acquired the lock and then fails
\* inside the guarded region, the stopped notice or the error-detail reply is
\* sent first, while the lock is still held and the typing indicator still
\* runs; the lock release, the stop of the typing indicator and (for audio)
\* the deletion of the scratch file all happen after that reply has settled,
\* and all have happened when the handler terminates.
C13_MessageBeforeCleanup ==
    \A i \in Procs :
        FailedInRegion(i) =>
            /\ \A m \in ClassifierReplies(i), c \in CleanupCalls(i) : m < c
            /\ (At(i, "catchReply") \/ At(i, "deleteOnError") \/ At(i, "classified"))
                   => CleanupCalls(i) = {}
            /\ Finished(i) =>
                   /\ Count(i, "stopProcessing") = 1
                   /\ Count(i, "typing.stop") = 1
                   /\ Count(i, "unlinkSync") = (IF IsAudio(i) THEN 1 ELSE 0)

\* an audio invocation ended after its catch block sent the error-detail reply
\* and its finally block ran
C13_Witness ==
    \E i \in Procs :
        /\ IsAudio(i)
        /\ Finished(i)
        /\ FailedInRegion(i)
        /\ \E m \in ClassifierReplies(i) : IsErrorDetail(inv[i].log[m].arg)
        /\ Count(i, "unlinkSync") = 1

\* the operation of the call the invocation made k calls before its last one
OpFromEnd(i, k) ==
    IF Len(inv[i].log) > k THEN inv[i].log[Len(inv[i].log) - k].op ELSE "none"

\* C14: the cleanup after the guarded region runs on every exit path (normal
\* return, early return, raised failure), once the region is left and not
\* before, in the order: release of the lock, stop of the typing indicator,
\* then (audio only) deletion of the scratch file; a deletion that fails does
\* not make the handler fail.
C14_CleanupOrder ==
    \A i \in Procs :
        Count(i, "startProcessing") = 1 =>
            /\ ~Finished(i) => CleanupCalls(i) = {}
            /\ (Finished(i) /\ IsAudio(i)) =>
                   /\ OpFromEnd(i, 2) = "stopProcessing"
                   /\ OpFromEnd(i, 1) = "typing.stop"
                   /\ OpFromEnd(i, 0) = "unlinkSync"
                   /\ Cardinality(CleanupCalls(i)) = 3
            /\ (Finished(i) /\ IsVideo(i)) =>
                   /\ OpFromEnd(i, 1) = "stopProcessing"
                   /\ OpFromEnd(i, 0) = "typing.stop"
                   /\ Cardinality(CleanupCalls(i)) = 2
            /\ (Finished(i) /\ ClassifierReplies(i) = {}) => inv[i].outcome = "returned"

\* an audio invocation returned early on a failed transcription, its cleanup
\* run although the scratch file was gone and the deletion failed
C14_Witness ==
    \E i \in Procs :
        /\ IsAudio(i)
        /\ Finished(i)
        /\ NoTranscript(i)
        /\ inv[i].outcome = "returned"
        /\ Says(i, "unlinkSync", <<"false">>) # {}
        /\ OpFromEnd(i, 2) = "stopProcessing"

\* the typing indicator of the invocation is running
Typing(i) == Count(i, "startTypingIndicator") > Count(i, "typing.stop")

\* C15: every typing indicator an invocation started is stopped by the time
\* the invocation terminates, on every path, raised failures included; an
\* invocation starts at most one, and only once it has acquired the lock.
C15_TypingStopped ==
    \A i \in Procs :
        /\ Count(i, "startTypingIndicator") <= 1
        /\ Count(i, "typing.stop") <= Count(i, "startTypingIndicator")
        /\ \A t \in Calls(i, "startTypingIndicator") :
               \E a \in Calls(i, "startProcessing") : a < t
        /\ Finished(i) => ~Typing(i)

\* a video invocation ended by raising the failure of the reply of its error
\* handler, its typing indicator stopped
C15_Witness ==
    \E i \in Procs :
        /\ IsVideo(i)
        /\ Finished(i)
        /\ inv[i].outcome = "raised"
        /\ Count(i, "startTypingIndicator") = 1
        /\ Count(i, "typing.stop") = 1

\* the first n characters of a text
FirstChars(t, n) == [k \in 1 .. (IF Len(t) < n THEN Len(t) ELSE n) |-> t[k]]

\* C16: the prompt the audio pipeline passes to sendMessageStreaming is the
\* transcript itself when the message has no caption, and otherwise the whole
\* transcript, the separator "\n\n---\n\n" and the caption; the transcript in
\* it is never cut, also when the preview before it showed the first 4000
\* characters and an ellipsis.
C16_PromptAssembly ==
    \A i \in Procs :
        IsAudio(i) =>
            \A s \in Calls(i, "sendMessageStreaming") :
                /\ inv[i].transcript # <<>>
                /\ inv[i].log[s].arg =
                       (IF inv[i].caption = <<>> THEN inv[i].transcript
                        ELSE inv[i].transcript
                                 \o <<"\n", "\n", "-", "-", "-", "\n", "\n">>
                                 \o inv[i].caption)
                /\ \E e \in Calls(i, "editMessageText") :
                       /\ e < s
                       /\ inv[i].log[e].arg =
                              (IF Len(inv[i].transcript) > 4000
                               THEN <<"(mic) ", "\"">>
                                        \o FirstChars(inv[i].transcript, 4000)
                                        \o <<"(ellipsis)", "\"">>
                               ELSE <<"(mic) ", "\"">> \o inv[i].transcript \o <<"\"">>)

\* an audio invocation sent the prompt of a captioned transcript of more than
\* 4000 characters
C16_Witness ==
    \E i \in Procs :
        /\ IsAudio(i)
        /\ Len(inv[i].transcript) > 4000
        /\ inv[i].caption # <<>>
        /\ Calls(i, "sendMessageStreaming") # {}
        /\ Finished(i)

\* the edit of the status message to the preview of the transcript raised
PreviewEditFailed(i) ==
    \E k \in DOMAIN inv[i].fails :
        inv[i].fails[k].at = "previewEdit" /\ inv[i].fails[k].how = "raised"

\* C17: in the audio pipeline the preview edit is best-effort: when the
\* transcription succeeded and the edit of the status message to the preview
\* fails, the invocation still calls sendMessageStreaming with the prompt and
\* sends no error reply (and no stopped notice) for the failed edit.
C17_PreviewBestEffort ==
    \A i \in Procs :
        (IsAudio(i) /\ PreviewEditFailed(i)) =>
            /\ Count(i, "sendMessageStreaming") = 1
            /\ \/ ClassifierReplies(i) = {}
               \/ \E k \in DOMAIN inv[i].fails : inv[i].fails[k].at = "streaming"

\* C18: while the sendMessageStreaming call of an invocation is in flight, the
\* invocation holds the processing lock (acquired, not yet released) and its
\* typing indicator runs; the release of the lock and the stop of the
\* indicator come only after the streaming call has returned or raised.
C18_StreamingUnderLock ==
    \A i \in Procs :
        /\ At(i, "streaming") =>
               /\ Calls(i, "sendMessageStreaming") # {}
               /\ Holds(i)
               /\ Typing(i)
        /\ \A s \in Calls(i, "sendMessageStreaming") :
               /\ \E a \in Calls(i, "startProcessing") : a < s
               /\ \E t \in Calls(i, "startTypingIndicator") : t < s
               /\ \A c \in Calls(i, "stopProcessing") \cup Calls(i, "typing.stop") :
                      s < c /\ ~At(i, "streaming")

\* the streaming call of a video invocation is in flight while an interrupt
\* is pending
C18_Witness ==
    \E i \in Procs :
        /\ IsVideo(i)
        /\ At(i, "streaming")
        /\ Holds(i)
        /\ session.interruptFlag

\* the invocation caught a failure whose description has a cancellation marker
CaughtCancellation(i) == \E k \in CaughtIn(i) : HasMarker(inv[i].fails[k].desc)

\* C19: an audio invocation reads and clears the interrupt flag of the Session
\* at most once, and only when it caught a failure classified as a
\* cancellation; every other step of an audio invocation (gate exits, failed
\* transcription, streaming success, genuine error, cleanup) leaves the flag
\* as it was.
C19_InterruptFlagFrame ==
    [][\A i \in Procs :
          (inv'[i] # inv[i] /\ (IsAudio(i) \/ IsAudio(i)')) =>
              /\ Count(i, "consumeInterruptFlag")' <= 1
              /\ Count(i, "consumeInterruptFlag")' = 1 => CaughtCancellation(i)'
              /\ session'.interruptFlag # session.interruptFlag =>
                     /\ Count(i, "consumeInterruptFlag") = 0
                     /\ Count(i, "consumeInterruptFlag")' = 1
                     /\ CaughtCancellation(i)'
                     /\ session.interruptFlag /\ ~session'.interruptFlag]_vars

\* an audio invocation ended on a genuine error of its streaming call while
\* an interrupt was pending, and left the flag set
C19_Witness ==
    \E i \in Procs :
        /\ IsAudio(i)
        /\ Finished(i)
        /\ \E k \in CaughtIn(i) :
              inv[i].fails[k].at = "streaming" /\ ~HasMarker(inv[i].fails[k].desc)
        /\ Count(i, "consumeInterruptFlag") = 0
        /\ session.interruptFlag

\* the streaming call of the invocation raised
StreamingFailed(i) ==
    \E k \in DOMAIN inv[i].fails : inv[i].fails[k].at = "streaming"

\* C20: an invocation writes at most one content audit record, and only after
\* its sendMessageStreaming call has returned a response; none is written
\* when the streaming call failed or was cancelled, nor when it was never
\* made.
C20_AuditAfterSuccess ==
    \A i \in Procs :
        /\ Count(i, "auditLog") <= 1
        /\ \A a \in Calls(i, "auditLog") :
               /\ \E s \in Calls(i, "sendMessageStreaming") : s < a
               /\ ~At(i, "streaming")
               /\ ~StreamingFailed(i)
               /\ Last(inv[i].log[a].arg) = "response"
        /\ (StreamingFailed(i) \/ Calls(i, "sendMessageStreaming") = {}) =>
               Count(i, "auditLog") = 0

\* a video invocation returned after its streaming call succeeded and its
\* audit record was written
C20_Witness ==
    \E i \in Procs :
        /\ IsVideo(i)
        /\ Finished(i)
        /\ inv[i].outcome = "returned"
        /\ Count(i, "sendMessageStreaming") = 1
        /\ Count(i, "auditLog") = 1

====
